---------------------------- MODULE Spec2Model ----------------------------
(***************************************************************************)
(* TikTokDriver (src/src/driver.ts): the provider adapter that customises  *)
(* the generic OAuth2 engine's redirect and token-exchange builders,       *)
(* fetches and normalises the user profile, and classifies the inbound     *)
(* error code.                                                             *)
(*                                                                         *)
(* JavaScript values are modelled as follows.  A string is a TLA+ string.  *)
(* A value that may be undefined (an optional configuration key, a missing *)
(* JSON key, a request input that was not sent) is None or Some(v).  null  *)
(* and undefined are not told apart: the code treats them alike (||, ?.    *)
(* and the property read that throws).  A request builder's parameters,    *)
(* fields and headers are functions from names to string values.           *)
(***************************************************************************)
EXTENDS Naturals, Sequences, FiniteSets, TLC

VARIABLES
  config,         \* this.config, fixed at construction
  inbound,        \* the inputs of this.ctx.request the driver reads
  redirect,       \* the redirect builder's parameters after the hook ran
  tokenReq,       \* the token-exchange builder after the hook ran
  denied,         \* the last value accessDenied() returned
  call,           \* the user() / userFromToken() call and its position
  profileReq,     \* the user-info request the current call sent
  result,         \* how the current call ended: a record or an error
  nExchange,      \* token exchanges attempted by the current call
  nGet,           \* profile GETs attempted by the current call
  exchangeError,  \* the error the engine's exchange raised in this call
  httpError,      \* the error the HTTP client's get() raised in this call
  lastResponse    \* what the current call's GET resolved to

vars == <<config, inbound, redirect, tokenReq, denied,
          call, profileReq, result, nExchange, nGet, exchangeError, httpError,
          lastResponse>>

---------------------------------------------------------------------------
(* Optional values *)

None == <<>>

Some(v) == <<v>>

IsSome(o) == o # None

Get(o) == o[1]

---------------------------------------------------------------------------
(* Bounds and input domains *)

\* Longest configured scope list explored.
MaxScopes == 2

\* Scope strings a configuration may list (a sample of TikTokScopes).
ScopeVocabulary == {"user.info.basic", "video.list"}

ScopeLists == UNION {[1..n -> ScopeVocabulary] : n \in 0..MaxScopes}

\* TikTokConfig: the three required credentials, the optional userInfoUrl
\* override and the optional scope list.
Configs ==
  [clientId     : {"client-id-1"},
   clientSecret : {"client-secret-1"},
   callbackUrl  : {"https://app.example/callback"},
   userInfoUrl  : {None, Some(""), Some("https://override.example/userinfo")},
   scopes       : {None} \cup {Some(s) : s \in ScopeLists}]

\* The inputs of the current inbound request that the driver reads:
\* ctx.request.input('code') and the error the engine extracts.
Inbounds ==
  [code  : {"code-1", "code-2"},
   error : {None, Some(""), Some("invalid_request"), Some("access_denied")}]

\* Token strings: what the engine's exchange yields, or what the caller holds.
Tokens == {"tok", "tok2"}

\* Errors the engine's token exchange may raise.
ExchangeErrors == {"E_OAUTH_STATE_MISMATCH", "E_TOKEN_HTTP_401"}

\* Errors the HTTP client's get() may raise.
HttpErrors == {"E_HTTP_500"}

\* The failure of reading a property of undefined.
TypeError == "TypeError: cannot read properties of undefined"

---------------------------------------------------------------------------
(* Request builders *)

EmptyParams == [k \in {} |-> ""]

\* request.param(k, v), request.field(k, v), request.header(k, v)
SetParam(p, k, v) == [x \in (DOMAIN p) \cup {k} |-> IF x = k THEN v ELSE p[x]]

\* request.clearParam(k)
ClearParam(p, k) == [x \in (DOMAIN p) \ {k} |-> p[x]]

\* The redirect builder as the engine hands it to the hook: fresh, or
\* already carrying the engine's standard OAuth2 parameters (the client_id
\* that the hook has to clear).
EngineRedirectBuilders(cfg) ==
  {EmptyParams,
   SetParam(SetParam(EmptyParams, "redirect_uri", cfg.callbackUrl),
            "client_id", cfg.clientId)}

\* The token-exchange builder as the engine hands it to the hook: fresh, or
\* already carrying the engine's standard OAuth2 form fields.
EngineTokenBuilders(cfg) ==
  {[headers |-> EmptyParams, fields |-> EmptyParams],
   [headers |-> EmptyParams,
    fields  |-> SetParam(SetParam(SetParam(SetParam(EmptyParams,
                  "grant_type", "authorization_code"),
                  "redirect_uri", cfg.callbackUrl),
                  "client_id", cfg.clientId),
                  "client_secret", cfg.clientSecret)]}

---------------------------------------------------------------------------
(* Driver constants *)

userInfoUrl == "https://open.tiktokapis.com/v2/user/info/"

scopeParamName == "scope"

scopesSeparator == " "

userProfileFields ==
  <<"open_id", "union_id", "avatar_url", "avatar_url_100",
    "avatar_large_url", "display_name">>

---------------------------------------------------------------------------
(* Pure helpers *)

\* Array.prototype.join(sep)
RECURSIVE Join(_, _)
Join(list, sep) ==
  IF Len(list) = 0 THEN ""
  ELSE IF Len(list) = 1 THEN list[1]
  ELSE list[1] \o sep \o Join(Tail(list), sep)

\* this.config.scopes || ['user.info.basic']: an array, even an empty one,
\* is truthy; only a missing list takes the default.
RedirectScopes(cfg) ==
  IF IsSome(cfg.scopes) THEN Get(cfg.scopes) ELSE <<"user.info.basic">>

\* The value given to the scope parameter: scopes.join(',')
RedirectScopeValue(cfg) == Join(RedirectScopes(cfg), ",")

ConfigureRedirectParamsSecretAsKey(cfg, params) ==
  ClearParam(
    SetParam(
      SetParam(
        SetParam(params, scopeParamName, RedirectScopeValue(cfg)),
        "client_key", cfg.clientSecret),
      "response_type", "code"),
    "client_id")

\* configureRedirectRequest: the builder's parameters afterwards.
ConfigureRedirectParams(cfg, params) ==
  ClearParam(
    SetParam(
      SetParam(
        SetParam(params, scopeParamName, RedirectScopeValue(cfg)),
        "client_key", cfg.clientId),
      "response_type", "code"),
    "client_id")

\* configureAccessTokenRequest: the builder afterwards.
ConfigureAccessTokenBuilder(cfg, inb, req) ==
  [headers |-> SetParam(req.headers, "Content-Type",
                        "application/x-www-form-urlencoded"),
   fields  |-> SetParam(SetParam(SetParam(SetParam(SetParam(req.fields,
                 "grant_type", "authorization_code"),
                 "client_key", cfg.clientId),
                 "client_secret", cfg.clientSecret),
                 "redirect_uri", cfg.callbackUrl),
                 "code", inb.code)]

\* !error: undefined and the empty string are falsy.
Falsy(o) == o = None \/ o = Some("")

AccessDeniedResultWrongCode(error) ==
  IF Falsy(error) THEN FALSE ELSE Get(error) = "access_denied"

\* accessDenied(): the value returned for the engine's getError().
AccessDeniedResult(error) ==
  IF Falsy(error) THEN FALSE ELSE Get(error) = "invalid_request"

---------------------------------------------------------------------------
(* The user-info response and its normalisation *)

\* The nested user object of a response: each field present or missing.
UserObjects ==
  {[union_id         |-> Some("u1"),
    display_name     |-> Some("Alice"),
    avatar_large_url |-> Some("http://a/av.png")],
   [union_id         |-> None,
    display_name     |-> None,
    avatar_large_url |-> None]}

\* What request.get() resolves to, parsed as JSON: the keys the code reads
\* (data, and user inside data) and a top-level user key, which it does not.
Responses ==
  [data : {None} \cup {Some([user |-> u]) : u \in {None} \cup {Some(o) : o \in UserObjects}},
   user : {None} \cup {Some(o) : o \in {u \in UserObjects : IsSome(u.union_id)}}]

\* An async function's outcome: it resolves with a value or rejects.
Return(v) == [error |-> None, value |-> Some(v)]

Throw(e) == [error |-> Some(e), value |-> None]

\* TikTokAccessToken, the object the engine's accessToken() resolves to.
EngineAccessToken(t) == [token |-> t, type |-> "bearer"]

\* A caller's request-customisation callback: absent, or one that sets a
\* query parameter of its own.
Callbacks == {None, Some([name |-> "locale", value |-> "en"])}

\* if (typeof callback === 'function') callback(request)
ApplyCallback(cb, req) ==
  IF cb = None THEN req
  ELSE [req EXCEPT !.params = SetParam(@, Get(cb).name, Get(cb).value)]

UserInfoTargetAlwaysDefault(cfg) == userInfoUrl

\* this.config.userInfoUrl || this.userInfoUrl
UserInfoTarget(cfg) ==
  IF Falsy(cfg.userInfoUrl) THEN userInfoUrl ELSE Get(cfg.userInfoUrl)

GetAuthenticatedRequestBareToken(url, token) ==
  [url     |-> url,
   headers |-> SetParam(EmptyParams, "Authorization", token),
   params  |-> SetParam(EmptyParams, "fields", Join(userProfileFields, ",")),
   parseAs |-> "json"]

\* getAuthenticatedRequest(url, token)
GetAuthenticatedRequest(url, token) ==
  [url     |-> url,
   headers |-> SetParam(EmptyParams, "Authorization", "Bearer " \o token),
   params  |-> SetParam(EmptyParams, "fields", Join(userProfileFields, ",")),
   parseAs |-> "json"]

ExtractUserOrEmptyObject(response) ==
  IF IsSome(response.data) /\ IsSome(Get(response.data).user)
  THEN Get(response.data).user
  ELSE Some([union_id |-> None, display_name |-> None, avatar_large_url |-> None])

\* response.data?.user
ExtractUser(response) ==
  IF IsSome(response.data) THEN Get(response.data).user ELSE None

UserRecordIdFromDisplayName(user, response) ==
  [id                     |-> user.display_name,
   nickName               |-> user.display_name,
   name                   |-> user.display_name,
   avatarUrl              |-> user.avatar_large_url,
   email                  |-> "",
   emailVerificationState |-> "unsupported",
   original               |-> response]

\* The record getUserInfo builds from the nested user object.
UserRecord(user, response) ==
  [id                     |-> user.union_id,
   nickName               |-> user.display_name,
   name                   |-> user.display_name,
   avatarUrl              |-> user.avatar_large_url,
   email                  |-> "",
   emailVerificationState |-> "unsupported",
   original               |-> response]

\* getUserInfo after the response arrived: reading a property of an
\* undefined user throws.
GetUserInfoResult(response) ==
  LET user == ExtractUser(response)
  IN  IF user = None THEN Throw(TypeError)
      ELSE Return(UserRecord(Get(user), response))

\* { ...user, token }
WithToken(outcome, token) ==
  IF IsSome(outcome.error) THEN outcome
  ELSE Return(Get(outcome.value) @@ ("token" :> token))

---------------------------------------------------------------------------
(* State machine *)

Idle == [op |-> "none", pc |-> "idle", token |-> None, accessToken |-> None,
         callback |-> None]

CanStart == call.pc \in {"idle", "done"}

Init ==
  /\ config \in Configs
  /\ inbound \in Inbounds
  /\ redirect = None
  /\ tokenReq = None
  /\ denied = None
  /\ call = Idle
  /\ profileReq = None
  /\ result = None
  /\ nExchange = 0
  /\ nGet = 0
  /\ exchangeError = None
  /\ httpError = None
  /\ lastResponse = None

\* The engine builds the redirect URL and runs the hook on its builder.
ConfigureRedirectRequest ==
  /\ \E b \in EngineRedirectBuilders(config) :
       redirect' = Some(ConfigureRedirectParams(config, b))
  /\ UNCHANGED <<config, inbound, tokenReq, denied, call, profileReq, result,
                 nExchange, nGet, exchangeError, httpError,
                 lastResponse>>

\* The engine prepares the token exchange and runs the hook on its builder.
ConfigureAccessTokenRequest ==
  /\ \E b \in EngineTokenBuilders(config) :
       tokenReq' = Some(ConfigureAccessTokenBuilder(config, inbound, b))
  /\ UNCHANGED <<config, inbound, redirect, denied, call, profileReq, result,
                 nExchange, nGet, exchangeError, httpError,
                 lastResponse>>

AccessDenied ==
  /\ denied' = Some(AccessDeniedResult(inbound.error))
  /\ UNCHANGED <<config, inbound, redirect, tokenReq, call, profileReq, result,
                 nExchange, nGet, exchangeError, httpError,
                 lastResponse>>

\* user(callback) is called: it first awaits this.accessToken(callback).
UserStart ==
  /\ CanStart
  /\ \E cb \in Callbacks :
       call' = [op |-> "user", pc |-> "exchange", token |-> None,
                accessToken |-> None, callback |-> cb]
  /\ profileReq' = None
  /\ result' = None
  /\ nExchange' = 0
  /\ nGet' = 0
  /\ exchangeError' = None
  /\ httpError' = None
  /\ lastResponse' = None
  /\ UNCHANGED <<config, inbound, redirect, tokenReq, denied>>

\* The engine's exchange succeeds: user() goes on to getUserInfo with the
\* token string.  The engine ran the hook on its builder on the way.
UserExchangeOk ==
  /\ call.op = "user" /\ call.pc = "exchange"
  /\ \E t \in Tokens :
       call' = [call EXCEPT !.pc = "fetch", !.token = Some(t),
                            !.accessToken = Some(EngineAccessToken(t))]
  /\ \E b \in EngineTokenBuilders(config) :
       tokenReq' = Some(ConfigureAccessTokenBuilder(config, inbound, b))
  /\ nExchange' = nExchange + 1
  /\ UNCHANGED <<config, inbound, redirect, denied, profileReq, result, nGet,
                 exchangeError, httpError,
                 lastResponse>>

UserExchangeFailSwallow ==
  /\ call.op = "user" /\ call.pc = "exchange"
  /\ \E e \in ExchangeErrors : exchangeError' = Some(e)
  /\ call' = [call EXCEPT !.pc = "fetch", !.token = Some("undefined")]
  /\ nExchange' = nExchange + 1
  /\ UNCHANGED <<config, inbound, redirect, tokenReq, denied, profileReq, nGet,
                 httpError, result,
                 lastResponse>>

\* The engine's exchange fails: the await rethrows and user() rejects with
\* the engine's error.
UserExchangeFail ==
  /\ call.op = "user" /\ call.pc = "exchange"
  /\ \E e \in ExchangeErrors :
       /\ exchangeError' = Some(e)
       /\ result' = Throw(e)
  /\ call' = [call EXCEPT !.pc = "done"]
  /\ nExchange' = nExchange + 1
  /\ UNCHANGED <<config, inbound, redirect, tokenReq, denied, profileReq, nGet,
                 httpError,
                 lastResponse>>

\* userFromToken(accessToken, callback) is called: it goes straight to
\* getUserInfo.
UserFromTokenStart ==
  /\ CanStart
  /\ \E t \in Tokens, cb \in Callbacks :
       call' = [op |-> "userFromToken", pc |-> "fetch", token |-> Some(t),
                accessToken |-> None, callback |-> cb]
  /\ profileReq' = None
  /\ result' = None
  /\ nExchange' = 0
  /\ nGet' = 0
  /\ exchangeError' = None
  /\ httpError' = None
  /\ lastResponse' = None
  /\ UNCHANGED <<config, inbound, redirect, tokenReq, denied>>

\* getUserInfo builds the authenticated request, lets the callback
\* customise it and issues the GET.
GetUserInfoSend ==
  /\ call.pc = "fetch"
  /\ profileReq' = Some(ApplyCallback(call.callback,
                     GetAuthenticatedRequest(UserInfoTarget(config), Get(call.token))))
  /\ nGet' = nGet + 1
  /\ call' = [call EXCEPT !.pc = "await"]
  /\ UNCHANGED <<config, inbound, redirect, tokenReq, denied, result, nExchange,
                 exchangeError, httpError,
                 lastResponse>>

\* The token user() and userFromToken() embed in the record.
EmbeddedToken(c) ==
  IF c.op = "user" THEN Get(c.accessToken)
  ELSE [token |-> Get(c.token), type |-> "bearer"]

\* The GET resolves: getUserInfo normalises the response and the caller
\* merges the token into the record.
GetUserInfoResponse ==
  /\ call.pc = "await"
  /\ \E r \in Responses :
       /\ lastResponse' = Some(r)
       /\ result' = WithToken(GetUserInfoResult(r), EmbeddedToken(call))
  /\ call' = [call EXCEPT !.pc = "done"]
  /\ UNCHANGED <<config, inbound, redirect, tokenReq, denied, profileReq,
                 nExchange, nGet, exchangeError, httpError>>

\* The GET rejects: the await rethrows the HTTP client's error.
GetUserInfoFail ==
  /\ call.pc = "await"
  /\ \E e \in HttpErrors :
       /\ httpError' = Some(e)
       /\ result' = Throw(e)
  /\ call' = [call EXCEPT !.pc = "done"]
  /\ UNCHANGED <<config, inbound, redirect, tokenReq, denied, profileReq,
                 nExchange, nGet, exchangeError,
                 lastResponse>>

Next ==
  \/ ConfigureRedirectRequest
  \/ ConfigureAccessTokenRequest
  \/ AccessDenied
  \/ UserStart
  \/ UserExchangeOk
  \/ UserExchangeFail
  \/ UserFromTokenStart
  \/ GetUserInfoSend
  \/ GetUserInfoResponse
  \/ GetUserInfoFail

Spec == Init /\ [][Next]_vars

---------------------------------------------------------------------------
(* Properties *)

Done == call.pc = "done"

Succeeded == Done /\ IsSome(result) /\ IsSome(result.value)

\* A user object carrying the three fields the record is built from.
WellFormedUser(u) ==
  IsSome(u.union_id) /\ IsSome(u.display_name) /\ IsSome(u.avatar_large_url)

\* The normalised record for user object u and token string t.
ExpectedRecord(rec, u, t) ==
  /\ rec.id = u.union_id
  /\ rec.name = u.display_name
  /\ rec.nickName = u.display_name
  /\ rec.avatarUrl = u.avatar_large_url
  /\ rec.email = ""
  /\ rec.emailVerificationState = "unsupported"
  /\ rec.token = [token |-> t, type |-> "bearer"]

Has(p, k) == k \in DOMAIN p

\* The part of C1 the code meets: scopes joined by ',', client_id cleared,
\* client_key set.
RedirectRenamesClientId ==
  IsSome(redirect)
    => /\ Get(redirect)[scopeParamName] = Join(RedirectScopes(config), ",")
       /\ ~Has(Get(redirect), "client_id")
       /\ Get(redirect)["client_key"] = config.clientId
       /\ Get(redirect)["response_type"] = "code"

\* The part of C2 the code meets: a missing scope list takes the default.
MissingScopesGiveDefault ==
  (IsSome(redirect) /\ config.scopes = None)
    => Get(redirect)[scopeParamName] = "user.info.basic"

\* The part of C3 the code meets: the five fields are set as stated, beside
\* whatever the engine's builder already carried.
TokenBodyCarriesFiveFields ==
  IsSome(tokenReq)
    => LET f == Get(tokenReq).fields
       IN  /\ {"grant_type", "client_key", "client_secret", "redirect_uri", "code"}
                \subseteq DOMAIN f
           /\ DOMAIN f \subseteq {"grant_type", "client_key", "client_secret",
                                  "redirect_uri", "code", "client_id"}
           /\ f["grant_type"] = "authorization_code"
           /\ f["client_key"] = config.clientId
           /\ f["client_secret"] = config.clientSecret
           /\ f["redirect_uri"] = config.callbackUrl
           /\ f["code"] = inbound.code

\* C1: for a configuration with a non-empty scope list S, after
\* configureRedirectRequest the scope parameter is S joined by single
\* spaces, client_id is absent and client_key is the configured clientId.
C1_ScopeJoinedBySpaces ==
  (IsSome(redirect) /\ IsSome(config.scopes) /\ Get(config.scopes) # <<>>)
    => /\ Get(redirect)[scopeParamName] = Join(Get(config.scopes), scopesSeparator)
       /\ ~Has(Get(redirect), "client_id")
       /\ Get(redirect)["client_key"] = config.clientId

\* C2: for a configuration with no scopes (the list absent, or present but
\* empty), after configureRedirectRequest the scope parameter is exactly
\* the default scope user.info.basic.
C2_NoScopesGivesDefault ==
  (IsSome(redirect) /\ (config.scopes = None \/ config.scopes = Some(<<>>)))
    => Get(redirect)[scopeParamName] = "user.info.basic"

\* C3: after configureAccessTokenRequest the token-exchange body holds
\* exactly the five fields grant_type, client_key, client_secret,
\* redirect_uri and code, with the configured values and the inbound code.
C3_ExactlyFiveFields ==
  IsSome(tokenReq)
    => LET f == Get(tokenReq).fields
       IN  /\ DOMAIN f = {"grant_type", "client_key", "client_secret",
                          "redirect_uri", "code"}
           /\ f["grant_type"] = "authorization_code"
           /\ f["client_key"] = config.clientId
           /\ f["client_secret"] = config.clientSecret
           /\ f["redirect_uri"] = config.callbackUrl
           /\ f["code"] = inbound.code

\* C4: accessDenied() returns true exactly when the inbound error code is
\* the string invalid_request, and false when it is absent, empty or any
\* other value.
C4_AccessDeniedIffInvalidRequest ==
  IsSome(denied) => (Get(denied) <=> (inbound.error = Some("invalid_request")))

C4_Witness ==
  denied = Some(TRUE) /\ inbound.error = Some("invalid_request")

\* C5 as stated: when the exchange yields token t and the user-info call
\* resolves to {user: {union_id, display_name, avatar_large_url}}, user()
\* returns the normalised record with the bearer token t embedded.
C5_TopLevelUserResponse ==
  (call.op = "user" /\ Done /\ IsSome(lastResponse)
     /\ Get(lastResponse).data = None
     /\ IsSome(Get(lastResponse).user)
     /\ WellFormedUser(Get(Get(lastResponse).user)))
    => /\ IsSome(result.value)
       /\ ExpectedRecord(Get(result.value), Get(Get(lastResponse).user),
                         Get(call.token))

\* C5 amended: when the exchange yields token t and the user-info call
\* resolves to {data: {user: {union_id, display_name, avatar_large_url}}},
\* user() returns the normalised record with the bearer token t embedded;
\* a response whose user object is not nested under data makes it fail.
C5_UserRecord ==
  (call.op = "user" /\ Done /\ IsSome(lastResponse))
    => LET r == Get(lastResponse)
       IN  /\ (IsSome(r.data) /\ IsSome(Get(r.data).user)
                 /\ WellFormedUser(Get(Get(r.data).user)))
               => /\ IsSome(result.value)
                  /\ ExpectedRecord(Get(result.value), Get(Get(r.data).user),
                                    Get(call.token))
                  /\ Get(result.value).original = r
           /\ r.data = None => result = Throw(TypeError)

C5_Witness ==
  /\ call.op = "user" /\ Succeeded
  /\ call.token = Some("tok")
  /\ Get(result.value).id = Some("u1")
  /\ Get(result.value).nickName = Some("Alice")
  /\ Get(result.value).token = [token |-> "tok", type |-> "bearer"]

\* C6: userFromToken(t) never performs the code-for-token exchange, sends
\* the profile request with the header Authorization: Bearer t, and on
\* success returns a record whose token is exactly {token: t, type: bearer}.
C6_UserFromToken ==
  call.op = "userFromToken"
    => /\ nExchange = 0
       /\ exchangeError = None
       /\ IsSome(profileReq)
            => Get(profileReq).headers["Authorization"] = "Bearer " \o Get(call.token)
       /\ Succeeded
            => Get(result.value).token = [token |-> Get(call.token), type |-> "bearer"]

C6_Witness ==
  /\ call.op = "userFromToken" /\ Succeeded
  /\ call.token = Some("tok2")
  /\ Get(profileReq).headers["Authorization"] = "Bearer tok2"
  /\ Get(result.value).token = [token |-> "tok2", type |-> "bearer"]

\* C7: with a userInfoUrl override configured every profile fetch targets
\* the override and never the built-in default; without one it targets the
\* built-in default.
C7_UserInfoUrlOverride ==
  IsSome(profileReq)
    => /\ (IsSome(config.userInfoUrl) /\ Get(config.userInfoUrl) # "")
            => /\ Get(profileReq).url = Get(config.userInfoUrl)
               /\ Get(profileReq).url # userInfoUrl
       /\ config.userInfoUrl = None => Get(profileReq).url = userInfoUrl

C7_Witness ==
  /\ IsSome(profileReq)
  /\ call.op = "userFromToken"
  /\ config.userInfoUrl = Some("https://override.example/userinfo")
  /\ Get(profileReq).url = "https://override.example/userinfo"

\* The values a builder's map carries.
Values(p) == {p[k] : k \in DOMAIN p}

\* C8: the client secret is never a redirect parameter and never part of
\* the user-info request, and no access token is a redirect parameter; the
\* secret is carried by the token-exchange body alone.
C8_SecretOnlyInTokenBody ==
  /\ IsSome(redirect)
       => /\ config.clientSecret \notin Values(Get(redirect))
          /\ Values(Get(redirect)) \cap Tokens = {}
          /\ Values(Get(redirect)) \cap {"Bearer " \o t : t \in Tokens} = {}
  /\ IsSome(profileReq)
       => /\ config.clientSecret \notin Values(Get(profileReq).headers)
          /\ config.clientSecret \notin Values(Get(profileReq).params)
          /\ Get(profileReq).url # config.clientSecret
          /\ Get(profileReq).headers["Authorization"] # "Bearer " \o config.clientSecret
  /\ IsSome(tokenReq)
       => /\ config.clientSecret \notin Values(Get(tokenReq).headers)
          /\ \A k \in DOMAIN Get(tokenReq).fields :
               Get(tokenReq).fields[k] = config.clientSecret => k = "client_secret"

C8_Witness ==
  /\ IsSome(redirect) /\ IsSome(profileReq) /\ IsSome(tokenReq)
  /\ IsSome(denied) /\ Succeeded
  /\ Get(tokenReq).fields["client_secret"] = config.clientSecret

\* C9: a failed token exchange makes user() fail with that same error, with
\* no profile request issued and no record returned; a failed profile GET
\* makes the call fail with the HTTP client's error; the exchange and the
\* GET are each attempted at most once per call.
C9_FailuresBubbleOnce ==
  /\ nExchange <= 1
  /\ nGet <= 1
  /\ IsSome(exchangeError)
       => /\ call.op = "user" /\ Done
          /\ result = Throw(Get(exchangeError))
          /\ nGet = 0 /\ profileReq = None
  /\ IsSome(httpError)
       => /\ Done
          /\ result = Throw(Get(httpError))
          /\ nGet = 1

C9_Witness ==
  /\ call.op = "user" /\ Done
  /\ exchangeError = Some("E_TOKEN_HTTP_401")
  /\ result = Throw("E_TOKEN_HTTP_401")
  /\ nExchange = 1

\* The response lacks the nested user object the code reads.
LacksNestedUser(r) == r.data = None \/ Get(r.data).user = None

\* C10: when the user-info response lacks the expected nested user object,
\* user() and userFromToken() end in an error that reaches the caller and
\* never return a record, not even one with undefined fields.
C10_MissingUserFails ==
  (Done /\ IsSome(lastResponse) /\ LacksNestedUser(Get(lastResponse)))
    => /\ result.value = None
       /\ result.error = Some(TypeError)

C10_Witness ==
  /\ call.op = "userFromToken" /\ Done
  /\ lastResponse = Some([data |-> Some([user |-> None]), user |-> None])
  /\ result = Throw(TypeError)

=============================================================================
